---- MODULE Spec2Model ----
(***************************************************************************)
(* A model of the quote-reminder application.                              *)
(*                                                                         *)
(* The application is a set of React Native screens over one key-value     *)
(* store (AsyncStorage) and the OS notification scheduler.  Each screen is *)
(* modelled as its component state plus the position of the handler that   *)
(* is running; a handler advances from one `await` to the next.            *)
(*                                                                         *)
(*   ReminderSpec : src/screens/ReminderScreen.js (scheduling of the daily *)
(*                  reminders, times list, notification-id list)           *)
(*   AuthSpec     : AuthLoadingScreen (startup: first-launch backup check, *)
(*                  quote fetch, navigation to Home / Login)               *)
(*   HomeSpec     : HomeScreen.toggleFavorite and the favorites functions  *)
(*                  of quotesDb                                            *)
(*   FetchSpec    : fetchQuotesFromAPI and mergeQuotes                     *)
(*   RestoreSpec  : BackupService.restoreBackup                            *)
(*   RaceSpec     : the ReminderScreen revision of src/unnamed/part_000,   *)
(*                  whose toggleReminder does not await the scheduling     *)
(***************************************************************************)
EXTENDS Integers, Sequences, FiniteSets, TLC

VARIABLES
    \* ---- AsyncStorage (the key-value store) ----
    currentUser,      \* key 'currentUser': an email, or NoUser when the key is absent
    storedQuotes,     \* key 'QUOTES_DATA': the list of quote objects
    storedPrefs,      \* keys 'preferences_<email>': [present, list] per email
    storedFavorites,  \* keys 'favorites_<email>': the list of favorite quotes per email
    hasLaunched,      \* key 'hasLaunched'
    quoteCount,       \* the length of QUOTES_DATA as AuthLoadingScreen sees it
    \* ---- the device ----
    backupFile,       \* backup.json exists in the document directory
    online,           \* NetInfo: the device is connected
    \* ---- AuthLoadingScreen component state ----
    isLoading,        \* useState(true)
    isWaitingForInternet, \* useState(false)
    quoteOfTheDay,    \* a quote is shown (useState(null))
    route,            \* the screen the navigation stack was last reset to
    authAlert,        \* the title of the last Alert.alert
    timerPending,     \* setTimeout(proceedToApp, 1800) has not fired yet
    atask,            \* the startup function in flight
    retries,          \* how often Try Again was pressed
    \* ---- HomeScreen component state ----
    userEmail,        \* useState(null)
    currentQuote,     \* useState(null)
    favorites,        \* useState([])
    htask,            \* the HomeScreen handler in flight
    toggled,          \* observations of the toggleFavorite runs
    \* ---- ReminderScreen component state ----
    enabled,          \* useState(false)
    times,            \* useState([])
    notificationIds,  \* useState([])
    \* ---- ReminderScreen persisted settings ----
    savedSettings,    \* what saveSettings / toggleReminder wrote
    \* ---- OS notification scheduler ----
    osScheduled,      \* the notifications the OS currently holds
    nextNotifId,      \* the next identifier scheduleNotificationAsync returns
    \* ---- the ReminderScreen handler in flight ----
    rtask,
    \* ---- observations of the run (what was called, with what) ----
    pass,             \* the current / last run of scheduleAllNotifications
    lastOp,           \* the current / last handler
    \* ---- ReminderScreen, the revision of src/unnamed/part_000 ----
    ttask,            \* the toggleReminder in flight
    \* ---- fetchQuotesFromAPI (src/utils/fetchQuotesFromAPI.js) ----
    ftask,            \* the call in flight
    fetchResult,      \* how the promise of the last call settled
    nextUuid,         \* the next id uuid.v4() returns
    \* ---- restoreBackup (src/utils/BackupService.js) ----
    backupContent,    \* what backup.json holds
    btask,            \* the call in flight
    restoreResult     \* how the promise of the last call settled
----------------------------------------------------------------------------
(* Bounds of the model *)

\* longest times list the handlers are run on
MaxTimes == 2
\* identifiers the OS hands out before the model stops starting handlers
MaxNotifIds == 3
\* longest stored quote list
MaxQuotes == 3
\* presses of Try Again on the loading screen
MaxRetries == 2
\* calls of fetchQuotesFromAPI
MaxFetches == 2
\* longest array the quotes API answers with
MaxBatch == 2

----------------------------------------------------------------------------
(* Program constants *)

\* AuthLoadingScreen fetches more quotes while fewer than this many are stored
FetchThreshold == 500

----------------------------------------------------------------------------
(* Strings: a string is a sequence of one-character strings *)

NoUser == "null"
Users == {"u1", "u2"}

\* q.category of a quote object that has no category field
Undefined == <<"undefined">>

ToLowerChar(c) ==
    CASE c = "A" -> "a"
      [] c = "B" -> "b"
      [] OTHER -> c

\* String.prototype.toLowerCase
ToLowerCase(s) == [i \in 1..Len(s) |-> ToLowerChar(s[i])]

RECURSIVE TrimStart(_)
TrimStart(s) ==
    IF s # <<>> /\ Head(s) = " " THEN TrimStart(Tail(s)) ELSE s

RECURSIVE TrimEnd(_)
TrimEnd(s) ==
    IF s # <<>> /\ s[Len(s)] = " " THEN TrimEnd(SubSeq(s, 1, Len(s) - 1)) ELSE s

\* String.prototype.trim
Trim(s) == TrimEnd(TrimStart(s))

\* the elements of a sequence
Range(s) == {s[i] : i \in 1..Len(s)}

----------------------------------------------------------------------------
(* Inputs *)

\* the quotes there are to store: one whose category is already lower case, one
\* whose category has an upper-case letter and a trailing space, one without a
\* category
QuoteCatalogue ==
    <<[id |-> 1, category |-> <<"a">>],
      [id |-> 2, category |-> <<"A", " ">>],
      [id |-> 3, category |-> Undefined]>>

\* the elements of seq at the positions in S, in their order in seq
RECURSIVE SubList(_, _, _)
SubList(seq, S, i) ==
    IF i > Len(seq) THEN <<>>
    ELSE (IF i \in S THEN <<seq[i]>> ELSE <<>>) \o SubList(seq, S, i + 1)

\* a 'preferences_<email>' key that was never written
NoPrefs == [present |-> FALSE, list |-> <<>>]

\* stored quote lists: at most MaxQuotes quotes of the catalogue (the id of a
\* quote is unique in the list)
QuoteLists ==
    {SubList(QuoteCatalogue, S, 1) :
        S \in {T \in SUBSET (1..Len(QuoteCatalogue)) : Cardinality(T) <= MaxQuotes}}

\* the times of day a reminder can be set to (Date.getHours, Date.getMinutes)
TimeValues == {[hour |-> 8, minute |-> 30], [hour |-> 21, minute |-> 0]}

\* quotesDb.getAvailableCategories: the distinct truthy categories of the quotes
AvailableCategories(quotes) ==
    {quotes[i].category : i \in 1..Len(quotes)} \ {Undefined}

----------------------------------------------------------------------------
(* ReminderScreen: the pure parts of scheduleAllNotifications *)

\* storedPrefs ? JSON.parse(storedPrefs).map(p => p.toLowerCase()) : []
Preferences(sp) ==
    IF sp.present THEN [i \in 1..Len(sp.list) |-> ToLowerCase(sp.list[i])] ELSE <<>>

\* q.category?.toLowerCase?.().trim()
NormalisedCategory(q) ==
    IF q.category = Undefined THEN Undefined ELSE Trim(ToLowerCase(q.category))

\* a filter that compares the category as stored
FilterByRawCategory(allQuotes, preferences) ==
    IF Len(preferences) = 0
    THEN allQuotes
    ELSE SelectSeq(allQuotes, LAMBDA q : q.category \in Range(preferences))

\* preferences.length === 0 ? allQuotes : allQuotes.filter(...)
FilteredQuotes(allQuotes, preferences) ==
    IF Len(preferences) = 0
    THEN allQuotes
    ELSE SelectSeq(allQuotes, LAMBDA q : NormalisedCategory(q) \in Range(preferences))

\* if (filteredQuotes.length === 0) { Alert.alert(...); return; }
NeverEmpty(filteredQuotes) == FALSE
NoQuotesFound(filteredQuotes) == Len(filteredQuotes) = 0

\* the request object given to Notifications.scheduleNotificationAsync
NotificationRequest(id, date, quote) ==
    [id |-> id, hour |-> date.hour, minute |-> date.minute, repeats |-> TRUE,
     quote |-> quote.id]

\* notifIds.push(id)
Unshift(notifIds, id) == <<id>> \o notifIds
Push(notifIds, id) == Append(notifIds, id)

\* Notifications.cancelAllScheduledNotificationsAsync()
CancelNothing(scheduled) == scheduled
CancelAllScheduled(scheduled) == {}

\* Notifications.cancelScheduledNotificationAsync(id)
CancelScheduled(scheduled, id) == {n \in scheduled : n.id # id}

\* arr.filter((_, i) => i !== index), with positions counted from 1
RemoveFirst(arr, index) ==
    IF arr = <<>> THEN arr ELSE Tail(arr)
RemoveAt(arr, index) ==
    [i \in 1..(Len(arr) - (IF index \in 1..Len(arr) THEN 1 ELSE 0)) |->
        IF i < index THEN arr[i] ELSE arr[i + 1]]

\* const updatedTimes = [...times]; updatedTimes[index] = selectedDate
ReplaceAt(arr, index, value) == [arr EXCEPT ![index] = value]

\* saveSettings(newTimes, ids): persists the times, the enabled flag and,
\* when given, the notification-id list
SaveSettings(saved, newTimes, ids, hasIds, enabledFlag) ==
    [times |-> newTimes,
     ids |-> IF hasIds THEN ids ELSE saved.ids,
     enabled |-> enabledFlag]

\* if (enabled) scheduleAllNotifications(updated)
NeverReschedule(enabledFlag) == FALSE
ShouldReschedule(enabledFlag) == enabledFlag

----------------------------------------------------------------------------
(* ReminderScreen: the handler in flight and the observations *)

IdleTask ==
    [op |-> "none", pc |-> "idle", capEnabled |-> FALSE, capTimes |-> <<>>,
     capIds |-> <<>>, index |-> 0, timeArray |-> <<>>, filteredQuotes |-> <<>>,
     notifIds |-> <<>>, k |-> 0]

NoPass ==
    [state |-> "none", timeArray |-> <<>>, idsAtStart |-> <<>>,
     handles |-> <<>>, alert |-> FALSE, saves |-> <<>>]

\* the observations of a run of scheduleAllNotifications(timeArray) that starts now
NewPass(timeArray, ids) ==
    [NoPass EXCEPT !.state = "running", !.timeArray = timeArray, !.idsAtStart = ids]

NoOp ==
    [op |-> "none", done |-> TRUE, enabled |-> FALSE, index |-> 0,
     cancelled |-> 0, saves |-> <<>>, rescheduled |-> FALSE]

\* a handler starts: what it captured from the render that created it
NewOp(op, index) ==
    [NoOp EXCEPT !.op = op, !.done = FALSE, !.enabled = enabled, !.index = index]

NewTask(op, index, pc) ==
    [IdleTask EXCEPT !.op = op, !.pc = pc, !.capEnabled = enabled,
                     !.capTimes = times, !.capIds = notificationIds,
                     !.index = index]

\* one call of saveSettings, as the caller made it
SaveCall(newTimes, ids, hasIds, registrationsDone) ==
    [times |-> newTimes, ids |-> ids, hasIds |-> hasIds,
     registrationsDone |-> registrationsDone]

authVars ==
    <<hasLaunched, quoteCount, backupFile, online, isLoading, isWaitingForInternet,
      quoteOfTheDay, route, authAlert, timerPending, atask, retries>>
homeVars == <<storedFavorites, userEmail, currentQuote, favorites, htask, toggled>>
utilVars ==
    <<ttask, ftask, fetchResult, nextUuid, backupContent, btask, restoreResult>>
\* what no ReminderScreen handler writes
outsideReminder ==
    <<currentUser, storedQuotes, storedPrefs, authVars, homeVars, utilVars>>
reminderVars ==
    <<enabled, times, notificationIds, savedSettings, osScheduled, nextNotifId,
      rtask, pass, lastOp>>
vars == <<outsideReminder, reminderVars>>

\* the other screens before they are mounted
AuthUnmounted ==
    /\ hasLaunched = TRUE
    /\ quoteCount = Len(storedQuotes)
    /\ backupFile = FALSE
    /\ online = TRUE
    /\ isLoading = TRUE
    /\ isWaitingForInternet = FALSE
    /\ quoteOfTheDay = FALSE
    /\ route = "Reminder"
    /\ authAlert = "none"
    /\ timerPending = FALSE
    /\ atask = [pc |-> "done", quoteCount |-> 0, isConnected |-> FALSE,
                email |-> NoUser]
    /\ retries = 0

NoQuote == [id |-> 0, category |-> Undefined]
IdleHome == [pc |-> "idle", email |-> NoUser, quote |-> NoQuote, isFavorite |-> FALSE]
NoToggles == [runs |-> <<>>, ignoredPress |-> FALSE, before |-> {}]

HomeUnmounted ==
    /\ storedFavorites = [e \in Users |-> <<>>]
    /\ userEmail = NoUser
    /\ currentQuote = NoQuote
    /\ favorites = <<>>
    /\ htask = IdleHome
    /\ toggled = NoToggles

\* no toggleReminder of the part_000 revision in flight
IdleToggle == [pc |-> "idle", newState |-> FALSE, capTimes |-> <<>>]

\* no fetchQuotesFromAPI called yet
IdleFetch ==
    [pc |-> "idle", failure |-> "none", newQuotes |-> <<>>, existing |-> <<>>]
NoFetchResult ==
    [state |-> "none", value |-> <<>>, failure |-> "none", before |-> <<>>,
     calls |-> 0]

\* no restoreBackup called yet
IdleRestore == [pc |-> "idle"]
NoRestoreResult ==
    [state |-> "none", value |-> FALSE, cause |-> "none",
     before |-> <<NoUser, FALSE>>]

\* the utilities before they are called
UtilsIdle ==
    /\ ttask = IdleToggle
    /\ ftask = IdleFetch
    /\ fetchResult = NoFetchResult
    /\ nextUuid = 1
    /\ backupContent = [kind |-> "malformed", entries |-> <<>>]
    /\ btask = IdleRestore
    /\ restoreResult = NoRestoreResult

\* the model stops starting handlers once the OS has handed out MaxNotifIds ids
CanStart == rtask.pc = "idle" /\ nextNotifId <= MaxNotifIds

----------------------------------------------------------------------------
(* ReminderScreen: the handlers.  A handler starts when no other is in     *)
(* flight and advances from one await to the next.                         *)

\* the handler in flight ends (its last statement is a Toast)
Finish ==
    /\ rtask' = IdleTask
    /\ lastOp' = [lastOp EXCEPT !.done = TRUE]

\* toggleReminder, up to the call it ends with
ToggleReminder ==
    /\ CanStart
    /\ LET newState == ~enabled IN
       /\ enabled' = newState
       /\ savedSettings' = [savedSettings EXCEPT !.enabled = newState]
       /\ rtask' = [NewTask("toggle", 0,
                            IF newState THEN "sched_cancel" ELSE "toggle_cancel")
                        EXCEPT !.timeArray = times]
       /\ lastOp' = [NewOp("toggle", 0) EXCEPT !.rescheduled = newState]
       /\ pass' = IF newState THEN NewPass(times, notificationIds) ELSE NoPass
    /\ UNCHANGED <<outsideReminder, times, notificationIds, osScheduled, nextNotifId>>

\* toggleReminder switching off: await cancelAllNotifications(); Toast
ToggleCancel ==
    /\ rtask.pc = "toggle_cancel"
    /\ osScheduled' = CancelAllScheduled(osScheduled)
    /\ Finish
    /\ UNCHANGED <<outsideReminder, enabled, times, notificationIds, savedSettings,
                   nextNotifId, pass>>

\* scheduleAllNotifications: await cancelAllNotifications()
SchedCancel ==
    /\ rtask.pc = "sched_cancel"
    /\ osScheduled' = CancelAllScheduled(osScheduled)
    /\ rtask' = [rtask EXCEPT !.pc = "sched_filter"]
    /\ UNCHANGED <<outsideReminder, enabled, times, notificationIds, savedSettings,
                   nextNotifId, pass, lastOp>>

\* scheduleAllNotifications: read the user, the preferences and the quotes,
\* filter, and return with an alert when nothing is left
SchedFilter ==
    /\ rtask.pc = "sched_filter"
    /\ LET email == currentUser
           preferences == Preferences(storedPrefs[email])
           allQuotes == storedQuotes
           filteredQuotes == FilteredQuotes(allQuotes, preferences)
       IN IF NoQuotesFound(filteredQuotes)
          THEN /\ pass' = [pass EXCEPT !.state = "empty", !.alert = TRUE]
               /\ Finish
          ELSE /\ pass' = pass
               /\ rtask' = [rtask EXCEPT !.pc = "sched_loop",
                                         !.filteredQuotes = filteredQuotes,
                                         !.notifIds = <<>>, !.k = 1]
               /\ UNCHANGED lastOp
    /\ UNCHANGED <<outsideReminder, enabled, times, notificationIds, savedSettings,
                   osScheduled, nextNotifId>>

\* scheduleAllNotifications: one turn of the loop over timeArray
SchedRegister ==
    /\ rtask.pc = "sched_loop"
    /\ rtask.k <= Len(rtask.timeArray)
    /\ \E quote \in Range(rtask.filteredQuotes) :
          LET date == rtask.timeArray[rtask.k]
              id == nextNotifId
              request == NotificationRequest(id, date, quote)
          IN /\ osScheduled' = osScheduled \cup {request}
             /\ nextNotifId' = nextNotifId + 1
             /\ rtask' = [rtask EXCEPT !.notifIds = Push(rtask.notifIds, id),
                                       !.k = rtask.k + 1]
             /\ pass' = [pass EXCEPT !.handles = Append(pass.handles, id)]
    /\ UNCHANGED <<outsideReminder, enabled, times, notificationIds, savedSettings,
                   lastOp>>

\* scheduleAllNotifications: after the loop, setNotificationIds, saveSettings, Toast
SchedSave ==
    /\ rtask.pc = "sched_loop"
    /\ rtask.k > Len(rtask.timeArray)
    /\ notificationIds' = rtask.notifIds
    /\ savedSettings' = SaveSettings(savedSettings, rtask.timeArray, rtask.notifIds,
                                     TRUE, enabled)
    /\ pass' = [pass EXCEPT !.state = "done",
                            !.saves = Append(pass.saves,
                                SaveCall(rtask.timeArray, rtask.notifIds, TRUE,
                                         Len(pass.handles)))]
    /\ Finish
    /\ UNCHANGED <<outsideReminder, enabled, times, osScheduled, nextNotifId>>

\* what a handler does after it has saved the new lists:
\* if (enabled) scheduleAllNotifications(updated), then a Toast
ThenReschedule(task, op, updated, ids) ==
    IF ShouldReschedule(task.capEnabled)
    THEN /\ rtask' = [task EXCEPT !.pc = "sched_cancel", !.timeArray = updated]
         /\ pass' = NewPass(updated, ids)
         /\ lastOp' = [op EXCEPT !.rescheduled = TRUE]
    ELSE /\ rtask' = IdleTask
         /\ pass' = NoPass
         /\ lastOp' = [op EXCEPT !.done = TRUE]

\* addNewTime
AddNewTime ==
    /\ CanStart
    /\ Len(times) < MaxTimes
    /\ \E now \in TimeValues :
          LET updated == Append(times, now) IN
          /\ times' = updated
          /\ savedSettings' = SaveSettings(savedSettings, updated, <<>>, FALSE, enabled)
          /\ ThenReschedule(NewTask("add", 0, "idle"),
                            [NewOp("add", 0) EXCEPT
                                !.saves = <<SaveCall(updated, <<>>, FALSE, 0)>>],
                            updated, notificationIds)
    /\ UNCHANGED <<outsideReminder, enabled, notificationIds, osScheduled, nextNotifId>>

\* handleTimeChange(event, selectedDate, index), the picker not dismissed
HandleTimeChange ==
    /\ CanStart
    /\ \E index \in 1..Len(times), selectedDate \in TimeValues :
          LET updatedTimes == ReplaceAt(times, index, selectedDate) IN
          /\ times' = updatedTimes
          /\ savedSettings' = SaveSettings(savedSettings, updatedTimes, <<>>, FALSE,
                                           enabled)
          /\ ThenReschedule(NewTask("change", index, "idle"),
                            [NewOp("change", index) EXCEPT
                                !.saves = <<SaveCall(updatedTimes, <<>>, FALSE, 0)>>],
                            updatedTimes, notificationIds)
    /\ UNCHANGED <<outsideReminder, enabled, notificationIds, osScheduled, nextNotifId>>

\* handleTimeChange with selectedDate null (the picker was dismissed): return
HandleTimeDismiss ==
    /\ CanStart
    /\ times # <<>>
    /\ UNCHANGED vars

\* removeTime(index): cancel the notification stored at index
RemoveTime ==
    /\ CanStart
    /\ \E index \in 1..Len(times) :
          LET has == index \in 1..Len(notificationIds) IN
          /\ osScheduled' = IF has
                            THEN CancelScheduled(osScheduled, notificationIds[index])
                            ELSE osScheduled
          /\ rtask' = NewTask("remove", index, "remove_update")
          /\ lastOp' = [NewOp("remove", index) EXCEPT
                           !.cancelled = IF has THEN notificationIds[index] ELSE 0]
          /\ pass' = NoPass
    /\ UNCHANGED <<outsideReminder, enabled, times, notificationIds, savedSettings,
                   nextNotifId>>

\* removeTime(index): drop the entry from both lists, save, reschedule if enabled
RemoveUpdate ==
    /\ rtask.pc = "remove_update"
    /\ LET updatedTimes == RemoveAt(rtask.capTimes, rtask.index)
           updatedNotifIds == RemoveAt(rtask.capIds, rtask.index)
       IN /\ times' = updatedTimes
          /\ notificationIds' = updatedNotifIds
          /\ savedSettings' = SaveSettings(savedSettings, updatedTimes,
                                           updatedNotifIds, TRUE, rtask.capEnabled)
          /\ ThenReschedule(rtask,
                            [lastOp EXCEPT
                                !.saves = <<SaveCall(updatedTimes, updatedNotifIds,
                                                     TRUE, 0)>>],
                            updatedTimes, updatedNotifIds)
    /\ UNCHANGED <<outsideReminder, enabled, osScheduled, nextNotifId>>

\* ProfileScreen.toggleCategory(category): the user selects or deselects one of
\* the categories of the stored quotes (getAvailableCategories)
ToggleCategory ==
    /\ rtask.pc = "idle"
    /\ currentUser # NoUser
    /\ \E category \in AvailableCategories(storedQuotes) :
          LET preferences == storedPrefs[currentUser].list
              normalized == ToLowerCase(category)
              updated == IF normalized \in Range(preferences)
                         THEN SelectSeq(preferences, LAMBDA c : c # normalized)
                         ELSE Append(preferences, normalized)
          IN storedPrefs' = [storedPrefs EXCEPT
                                ![currentUser] = [present |-> TRUE, list |-> updated]]
    /\ lastOp' = [NoOp EXCEPT !.op = "category"]
    /\ pass' = NoPass
    /\ UNCHANGED <<currentUser, storedQuotes, authVars, homeVars, utilVars, enabled,
                   times, notificationIds, savedSettings, osScheduled, nextNotifId,
                   rtask>>

\* ReminderScreen as useState leaves it, nothing scheduled yet
ReminderMounted ==
    /\ enabled = FALSE
    /\ times = <<>>
    /\ notificationIds = <<>>
    /\ savedSettings = [times |-> <<>>, ids |-> <<>>, enabled |-> FALSE]
    /\ osScheduled = {}
    /\ nextNotifId = 1
    /\ rtask = IdleTask
    /\ pass = NoPass
    /\ lastOp = NoOp

ReminderInit ==
    /\ currentUser \in {"u1", NoUser}
    /\ storedQuotes \in QuoteLists
    /\ storedPrefs = [e \in Users \cup {NoUser} |-> NoPrefs]
    /\ AuthUnmounted
    /\ HomeUnmounted
    /\ ReminderMounted
    /\ UtilsIdle

ReminderNext ==
    \/ ToggleReminder
    \/ ToggleCancel
    \/ SchedCancel
    \/ SchedFilter
    \/ SchedRegister
    \/ SchedSave
    \/ AddNewTime
    \/ HandleTimeChange
    \/ HandleTimeDismiss
    \/ RemoveTime
    \/ RemoveUpdate
    \/ ToggleCategory

ReminderSpec == ReminderInit /\ [][ReminderNext]_vars

----------------------------------------------------------------------------
(* AuthLoadingScreen (src/unnamed/part_001) *)

\* the route proceedToApp resets the navigation stack to: email ? 'Home' : 'Login'
AlwaysHome(email) == "Home"
RouteFor(email) == IF email # NoUser THEN "Home" ELSE "Login"

\* isWaitingForInternet as the NetInfo listener sees it: the listener is created
\* once, by the effect of the first render (dependency list []), and closes over
\* the value of that render, useState(false)
ListenerIsWaitingForInternet == FALSE

AuthTask(pc) ==
    [pc |-> pc, quoteCount |-> 0, isConnected |-> FALSE, email |-> NoUser]

outsideAuth == <<storedQuotes, storedPrefs, homeVars, reminderVars, utilVars>>

\* initializeApp: read 'hasLaunched'; on the first launch set it and go on to the
\* backup check, otherwise call fetchAndStoreQuotes (which sets isLoading)
InitializeApp ==
    /\ atask.pc = "init"
    /\ IF ~hasLaunched
       THEN /\ hasLaunched' = TRUE
            /\ atask' = AuthTask("init_backup")
            /\ UNCHANGED isLoading
       ELSE /\ isLoading' = TRUE
            /\ atask' = AuthTask("fetch_quotes")
            /\ UNCHANGED hasLaunched
    /\ UNCHANGED <<currentUser, quoteCount, backupFile, online, isWaitingForInternet,
                   quoteOfTheDay, route, authAlert, timerPending, retries,
                   outsideAuth>>

\* initializeApp on the first launch: backupExists(), which reads the file
\* system and may throw
InitBackupCheck ==
    /\ atask.pc = "init_backup"
    /\ \E threw \in BOOLEAN :
          IF threw
          THEN /\ authAlert' = "Error"
               /\ isLoading' = FALSE
               /\ atask' = AuthTask("done")
               /\ UNCHANGED route
          ELSE IF backupFile
          THEN /\ route' = "BackupRestore"
               /\ atask' = AuthTask("done")
               /\ UNCHANGED <<authAlert, isLoading>>
          ELSE /\ isLoading' = TRUE
               /\ atask' = AuthTask("fetch_quotes")
               /\ UNCHANGED <<authAlert, route>>
    /\ UNCHANGED <<currentUser, hasLaunched, quoteCount, backupFile, online,
                   isWaitingForInternet, quoteOfTheDay, timerPending, retries,
                   outsideAuth>>

\* fetchAndStoreQuotes: const storedQuotes = await getQuotes()
FetchGetQuotes ==
    /\ atask.pc = "fetch_quotes"
    /\ atask' = [atask EXCEPT !.pc = "fetch_net", !.quoteCount = quoteCount]
    /\ UNCHANGED <<currentUser, hasLaunched, quoteCount, backupFile, online, isLoading,
                   isWaitingForInternet, quoteOfTheDay, route, authAlert,
                   timerPending, retries, outsideAuth>>

\* fetchAndStoreQuotes: const netState = await NetInfo.fetch(), which may throw
FetchNetInfo ==
    /\ atask.pc = "fetch_net"
    /\ \E threw \in BOOLEAN :
          IF threw
          THEN /\ authAlert' = "Error"
               /\ isLoading' = FALSE
               /\ atask' = AuthTask("done")
          ELSE /\ atask' = [atask EXCEPT
                               !.isConnected = online,
                               !.pc = IF online /\ atask.quoteCount < FetchThreshold
                                      THEN "fetch_api" ELSE "fetch_decide"]
               /\ UNCHANGED <<authAlert, isLoading>>
    /\ UNCHANGED <<currentUser, hasLaunched, quoteCount, backupFile, online,
                   isWaitingForInternet, quoteOfTheDay, route, timerPending, retries,
                   outsideAuth>>

\* fetchAndStoreQuotes: await fetchQuotesFromAPI(), which stores what is new and
\* catches its own errors
FetchFromAPI ==
    /\ atask.pc = "fetch_api"
    /\ \E added \in {0, 1} : quoteCount' = quoteCount + added
    /\ atask' = [atask EXCEPT !.pc = "fetch_decide"]
    /\ UNCHANGED <<currentUser, hasLaunched, backupFile, online, isLoading,
                   isWaitingForInternet, quoteOfTheDay, route, authAlert,
                   timerPending, retries, outsideAuth>>

\* fetchAndStoreQuotes: if (quoteCount > 0) {...} else if (!isConnected) {...}
FetchDecide ==
    /\ atask.pc = "fetch_decide"
    /\ IF atask.quoteCount > 0
       THEN /\ quoteOfTheDay' = TRUE
            /\ isWaitingForInternet' = ~atask.isConnected
            /\ timerPending' = TRUE
            /\ UNCHANGED <<authAlert, isLoading>>
       ELSE IF ~atask.isConnected
       THEN /\ authAlert' = "Offline"
            /\ isWaitingForInternet' = TRUE
            /\ isLoading' = FALSE
            /\ UNCHANGED <<quoteOfTheDay, timerPending>>
       ELSE UNCHANGED <<quoteOfTheDay, isWaitingForInternet, timerPending, authAlert,
                        isLoading>>
    /\ atask' = AuthTask("done")
    /\ UNCHANGED <<currentUser, hasLaunched, quoteCount, backupFile, online, route,
                   retries, outsideAuth>>

\* the timer fires: proceedToApp reads 'currentUser'
ProceedToApp ==
    /\ timerPending
    /\ atask.pc = "done"
    /\ timerPending' = FALSE
    /\ atask' = [AuthTask("proceed") EXCEPT !.email = currentUser]
    /\ UNCHANGED <<currentUser, hasLaunched, quoteCount, backupFile, online, isLoading,
                   isWaitingForInternet, quoteOfTheDay, route, authAlert, retries,
                   outsideAuth>>

\* proceedToApp: navigation.reset to Home or Login
ProceedReset ==
    /\ atask.pc = "proceed"
    /\ route' = RouteFor(atask.email)
    /\ atask' = AuthTask("done")
    /\ UNCHANGED <<currentUser, hasLaunched, quoteCount, backupFile, online, isLoading,
                   isWaitingForInternet, quoteOfTheDay, authAlert, timerPending,
                   retries, outsideAuth>>

\* the Try Again button, rendered while isLoading is false: fetchAndStoreQuotes
TryAgain ==
    /\ route = "AuthLoading"
    /\ ~isLoading
    /\ atask.pc = "done"
    /\ retries < MaxRetries
    /\ retries' = retries + 1
    /\ isLoading' = TRUE
    /\ atask' = AuthTask("fetch_quotes")
    /\ UNCHANGED <<currentUser, hasLaunched, quoteCount, backupFile, online,
                   isWaitingForInternet, quoteOfTheDay, route, authAlert,
                   timerPending, outsideAuth>>

\* the connection changes; the NetInfo listener runs:
\* if (state.isConnected && isWaitingForInternet) fetchAndStoreQuotes()
NetChange ==
    /\ online' = ~online
    /\ IF online' /\ ListenerIsWaitingForInternet /\ route = "AuthLoading"
          /\ atask.pc = "done"
       THEN /\ isLoading' = TRUE
            /\ atask' = AuthTask("fetch_quotes")
       ELSE UNCHANGED <<isLoading, atask>>
    /\ UNCHANGED <<currentUser, hasLaunched, quoteCount, backupFile,
                   isWaitingForInternet, quoteOfTheDay, route, authAlert,
                   timerPending, retries, outsideAuth>>

\* ReminderScreen and HomeScreen before they are mounted
OtherScreensUnmounted ==
    /\ storedQuotes = <<>>
    /\ storedPrefs = [e \in Users \cup {NoUser} |-> NoPrefs]
    /\ HomeUnmounted
    /\ ReminderMounted
    /\ UtilsIdle

AuthInit ==
    /\ currentUser \in Users \cup {NoUser}
    /\ hasLaunched \in BOOLEAN
    /\ backupFile \in BOOLEAN
    /\ online \in BOOLEAN
    /\ quoteCount \in {0, 1, FetchThreshold - 1, FetchThreshold}
    /\ isLoading = TRUE
    /\ isWaitingForInternet = FALSE
    /\ quoteOfTheDay = FALSE
    /\ route = "AuthLoading"
    /\ authAlert = "none"
    /\ timerPending = FALSE
    /\ atask = AuthTask("init")
    /\ retries = 0
    /\ OtherScreensUnmounted

AuthNext ==
    \/ InitializeApp
    \/ InitBackupCheck
    \/ FetchGetQuotes
    \/ FetchNetInfo
    \/ FetchFromAPI
    \/ FetchDecide
    \/ ProceedToApp
    \/ ProceedReset
    \/ TryAgain
    \/ NetChange

AuthSpec == AuthInit /\ [][AuthNext]_vars

\* no startup function is in flight and no timer is pending
AuthSettled == atask.pc = "done" /\ ~timerPending

\* C1: startup never stays on the loading spinner: once nothing of it is left to
\* run, navigation was reset to Home, Login or BackupRestore, or the spinner has
\* given way to the Try Again button
C1_StartupLeavesSpinner ==
    AuthSettled => (route \in {"Home", "Login", "BackupRestore"} \/ ~isLoading)

\* C2: proceedToApp resets navigation to Home exactly when a currentUser is
\* stored, and to Login otherwise
C2_HomeOnlyWithCurrentUser ==
    /\ route = "Home" => currentUser # NoUser
    /\ route = "Login" => currentUser = NoUser
    /\ (atask.pc = "done" /\ ~timerPending /\ quoteOfTheDay) =>
          route = (IF currentUser # NoUser THEN "Home" ELSE "Login")

\* startup has reached Home for a stored user
C2_Witness ==
    /\ route = "Home"
    /\ currentUser \in Users
    /\ atask.pc = "done"

----------------------------------------------------------------------------
(* quotesDb favorites (src/context/ThemeContext.js) and HomeScreen            *)
(* (src/screens/HomeScreen.js)                                               *)

\* the holder of the key `favorites_${email}`
SharedFavoritesKey(email) == "u1"
FavoritesKey(email) == email

\* getFavorites(email): data ? JSON.parse(data) : []
GetFavorites(stored, email) == stored[FavoritesKey(email)]

\* addFavorite(email, quote): append unless a favorite has the quote's id
AddFavorite(stored, email, quote) ==
    LET currentFavorites == GetFavorites(stored, email)
        exists == \E i \in 1..Len(currentFavorites) : currentFavorites[i].id = quote.id
    IN IF exists THEN stored
       ELSE [stored EXCEPT ![FavoritesKey(email)] = Append(currentFavorites, quote)]

\* removeFavorite(email, quoteId): keep the favorites with another id
RemoveFavorite(stored, email, quoteId) ==
    LET currentFavorites == GetFavorites(stored, email)
    IN [stored EXCEPT ![FavoritesKey(email)] =
            SelectSeq(currentFavorites, LAMBDA q : q.id # quoteId)]

\* favorites.some(q => q.id === currentQuote.id)
NeverFavorite(favs, quote) == FALSE
IsFavorite(favs, quote) == \E i \in 1..Len(favs) : favs[i].id = quote.id

\* HomeScreen.loadData: preferences.length === 0 ? storedQuotes
\*                      : storedQuotes.filter(q => preferences.includes(q.category))
HomeFilteredQuotes(allQuotes, preferences) ==
    IF Len(preferences) = 0
    THEN allQuotes
    ELSE SelectSeq(allQuotes, LAMBDA q : q.category \in Range(preferences))

\* the ids of a list of quotes
Ids(quotes) == {quotes[i].id : i \in 1..Len(quotes)}

outsideHome == <<storedPrefs, authVars, reminderVars, utilVars>>

\* the screen gets the focus: loadData reads the user, the quotes, the favorites
\* and the preferences, and shows the first quote of the shuffled selection
LoadData ==
    /\ htask.pc = "load"
    /\ LET email == currentUser
           storedFavs == IF email # NoUser THEN GetFavorites(storedFavorites, email)
                         ELSE <<>>
           filteredQuotes == HomeFilteredQuotes(storedQuotes,
                                                Preferences(storedPrefs[email]))
       IN /\ userEmail' = email
          /\ favorites' = storedFavs
          /\ IF filteredQuotes = <<>>
             THEN currentQuote' = NoQuote
             ELSE currentQuote' \in Range(filteredQuotes)
    /\ htask' = IdleHome
    /\ toggled' = NoToggles
    /\ UNCHANGED <<currentUser, storedQuotes, storedFavorites, outsideHome>>

\* onViewableItemsChanged: the user scrolls to another quote of the list
ViewQuote ==
    /\ htask.pc = "idle"
    /\ \E q \in Range(HomeFilteredQuotes(storedQuotes,
                                         Preferences(storedPrefs[currentUser]))) :
          /\ q # currentQuote
          /\ currentQuote' = q
    /\ toggled' = [toggled EXCEPT !.ignoredPress = FALSE]
    /\ UNCHANGED <<currentUser, storedQuotes, storedFavorites, userEmail, favorites,
                   htask, outsideHome>>

\* toggleFavorite: if (!userEmail || !currentQuote) return; otherwise decide from
\* the favorites in state whether to remove or to add
ToggleFavorite ==
    /\ htask.pc = "idle"
    /\ IF userEmail = NoUser \/ currentQuote = NoQuote
       THEN /\ toggled' = [toggled EXCEPT !.ignoredPress = TRUE]
            /\ UNCHANGED htask
       ELSE /\ htask' = [pc |-> IF IsFavorite(favorites, currentQuote)
                                THEN "remove" ELSE "add",
                         email |-> userEmail, quote |-> currentQuote,
                         isFavorite |-> IsFavorite(favorites, currentQuote)]
            /\ toggled' = [toggled EXCEPT
                              !.ignoredPress = FALSE,
                              !.before = Ids(GetFavorites(storedFavorites, userEmail))]
    /\ UNCHANGED <<currentUser, storedQuotes, storedFavorites, userEmail, currentQuote,
                   favorites, outsideHome>>

\* toggleFavorite: await removeFavorite(userEmail, currentQuote.id)
ToggleRemove ==
    /\ htask.pc = "remove"
    /\ storedFavorites' = RemoveFavorite(storedFavorites, htask.email, htask.quote.id)
    /\ htask' = [htask EXCEPT !.pc = "refresh"]
    /\ UNCHANGED <<currentUser, storedQuotes, userEmail, currentQuote, favorites,
                   toggled, outsideHome>>

\* toggleFavorite: await addFavorite(userEmail, currentQuote)
ToggleAdd ==
    /\ htask.pc = "add"
    /\ storedFavorites' = AddFavorite(storedFavorites, htask.email, htask.quote)
    /\ htask' = [htask EXCEPT !.pc = "refresh"]
    /\ UNCHANGED <<currentUser, storedQuotes, userEmail, currentQuote, favorites,
                   toggled, outsideHome>>

\* toggleFavorite: setFavorites(await getFavorites(userEmail)), Toast
ToggleRefresh ==
    /\ htask.pc = "refresh"
    /\ favorites' = GetFavorites(storedFavorites, htask.email)
    /\ toggled' = [toggled EXCEPT
                      !.runs = (IF Len(@) = 2 THEN Tail(@) ELSE @) \o
                               <<[quote |-> htask.quote.id,
                                  wasFavorite |-> htask.isFavorite,
                                  before |-> toggled.before,
                                  after |-> Ids(GetFavorites(storedFavorites,
                                                             htask.email))]>>]
    /\ htask' = IdleHome
    /\ UNCHANGED <<currentUser, storedQuotes, storedFavorites, userEmail, currentQuote,
                   outsideHome>>

\* FavoritesScreen.handleRemove(quote) for a favorite of the logged-in user; on the
\* way back HomeScreen gets the focus again and loads its data
FavoritesScreenRemove ==
    /\ htask.pc = "idle"
    /\ currentUser # NoUser
    /\ \E i \in 1..Len(GetFavorites(storedFavorites, currentUser)) :
          storedFavorites' =
              RemoveFavorite(storedFavorites, currentUser,
                             GetFavorites(storedFavorites, currentUser)[i].id)
    /\ htask' = [IdleHome EXCEPT !.pc = "load"]
    /\ toggled' = NoToggles
    /\ UNCHANGED <<currentUser, storedQuotes, userEmail, currentQuote, favorites,
                   outsideHome>>

\* the favorites a user may have stored before: none, or the first quote
FavoriteLists == {<<>>, <<QuoteCatalogue[1]>>}

HomeInit ==
    /\ currentUser \in Users \cup {NoUser}
    /\ storedQuotes \in QuoteLists
    /\ storedPrefs = [e \in Users \cup {NoUser} |-> NoPrefs]
    /\ storedFavorites \in [Users -> FavoriteLists]
    /\ userEmail = NoUser
    /\ currentQuote = NoQuote
    /\ favorites = <<>>
    /\ htask = [IdleHome EXCEPT !.pc = "load"]
    /\ toggled = NoToggles
    /\ AuthUnmounted
    /\ ReminderMounted
    /\ UtilsIdle

HomeNext ==
    \/ LoadData
    \/ ViewQuote
    \/ ToggleFavorite
    \/ ToggleRemove
    \/ ToggleAdd
    \/ ToggleRefresh
    \/ FavoritesScreenRemove

HomeSpec == HomeInit /\ [][HomeNext]_vars

\* C9: toggleFavorite removes the current quote from the user's favorites if it
\* is a favorite and adds it otherwise; two toggles of the same quote in a row
\* leave the set of favorite ids as it was; without a user or without a current
\* quote toggleFavorite changes nothing
C9_ToggleFavoriteIsAnInvolution ==
    /\ [](\A i \in 1..Len(toggled.runs) :
            LET run == toggled.runs[i] IN
            /\ run.wasFavorite <=> run.quote \in run.before
            /\ run.after = IF run.quote \in run.before
                           THEN run.before \ {run.quote}
                           ELSE run.before \cup {run.quote})
    /\ []((/\ Len(toggled.runs) = 2
           /\ toggled.runs[1].quote = toggled.runs[2].quote) =>
              /\ toggled.runs[2].before = toggled.runs[1].after
              /\ toggled.runs[2].after = toggled.runs[1].before)
    /\ [][toggled'.ignoredPress =>
            /\ storedFavorites' = storedFavorites
            /\ favorites' = favorites
            /\ storedQuotes' = storedQuotes
            /\ htask' = htask]_vars

\* the same quote was toggled twice in a row, first removed and then added again,
\* while another favorite stayed
C9_Witness ==
    /\ Len(toggled.runs) = 2
    /\ toggled.runs[1].quote = toggled.runs[2].quote
    /\ toggled.runs[1].wasFavorite
    /\ Cardinality(toggled.runs[1].before) = 2

\* C10: addFavorite and removeFavorite called with one email change neither the
\* favorites list of another email nor the stored quote list
C10_FavoritesArePerUser ==
    [][(htask.pc \in {"add", "remove"} \/ htask'.pc = "load") =>
          /\ \A e \in Users :
                e # (IF htask.pc = "idle" THEN currentUser ELSE htask.email) =>
                    storedFavorites'[e] = storedFavorites[e]
          /\ storedQuotes' = storedQuotes]_vars

\* the second user has added a favorite while the first user has one stored
C10_Witness ==
    /\ htask.pc = "refresh"
    /\ htask.email = "u2"
    /\ ~htask.isFavorite
    /\ storedFavorites["u1"] # <<>>
    /\ Len(storedFavorites["u2"]) = 2

----------------------------------------------------------------------------
(* ReminderScreen: the claims *)

\* the handler that ran last has returned and it ran scheduleAllNotifications
\* to its end; nothing has run since
PassJustEnded ==
    /\ rtask.pc = "idle"
    /\ lastOp.done
    /\ lastOp.rescheduled

\* the ids of the notifications the OS holds
ScheduledIds == {n.id : n \in osScheduled}

\* the stored preference list of the current user, lower-cased
LowercasedPreferenceSet ==
    {ToLowerCase(p) : p \in Range(storedPrefs[currentUser].list)}

\* the quote pool as the specification words it: every stored quote when the
\* preference list is empty or absent, otherwise the stored quotes whose
\* category, lower-cased and trimmed, is in the lower-cased preference list
SpecifiedPool ==
    IF ~storedPrefs[currentUser].present \/ storedPrefs[currentUser].list = <<>>
    THEN Range(storedQuotes)
    ELSE {q \in Range(storedQuotes) :
            /\ q.category # Undefined
            /\ Trim(ToLowerCase(q.category)) \in LowercasedPreferenceSet}

\* C3: when scheduleAllNotifications(timeArray) has run alone to its end with a
\* non-empty quote pool, the OS holds exactly one repeating notification per
\* element of timeArray, with that element's hour and minute, and nothing that
\* an earlier pass registered
C3_OneNotificationPerTime ==
    (PassJustEnded /\ SpecifiedPool # {}) =>
        /\ pass.state = "done"
        /\ Len(pass.handles) = Len(pass.timeArray)
        /\ Cardinality(osScheduled) = Len(pass.timeArray)
        /\ ScheduledIds = Range(pass.handles)
        /\ \A i \in 1..Len(pass.timeArray) :
              \E n \in osScheduled :
                 /\ n.id = pass.handles[i]
                 /\ n.hour = pass.timeArray[i].hour
                 /\ n.minute = pass.timeArray[i].minute
                 /\ n.repeats

\* a pass over two times has ended after an earlier pass had registered something
C3_Witness ==
    /\ PassJustEnded
    /\ pass.state = "done"
    /\ Len(pass.timeArray) = 2
    /\ \A i \in 1..Len(pass.handles) : pass.handles[i] > 1

\* C4: after scheduleAllNotifications(timeArray) has completed, the id list in
\* state and the one passed to saveSettings are the handles the registrations
\* of this pass returned, in the order of timeArray, and saveSettings was
\* called once, after the last registration
C4_IdsAreThisPassHandles ==
    (PassJustEnded /\ pass.state = "done") =>
        /\ notificationIds = pass.handles
        /\ Len(notificationIds) = Len(pass.timeArray)
        /\ \A i \in 1..Len(pass.timeArray) :
              \E n \in osScheduled :
                 /\ n.id = notificationIds[i]
                 /\ n.hour = pass.timeArray[i].hour
                 /\ n.minute = pass.timeArray[i].minute
        /\ Len(pass.saves) = 1
        /\ pass.saves[1].hasIds
        /\ pass.saves[1].times = pass.timeArray
        /\ pass.saves[1].ids = pass.handles
        /\ pass.saves[1].registrationsDone = Len(pass.timeArray)

\* a pass over two different times has completed
C4_Witness ==
    /\ PassJustEnded
    /\ pass.state = "done"
    /\ Len(pass.timeArray) = 2
    /\ pass.timeArray[1] # pass.timeArray[2]
    /\ notificationIds # <<>>

\* C5: the pool scheduleAllNotifications draws from is the specified pool, and
\* the quote of every notification it registers is in that pool
C5_PoolIsFilteredByPreference ==
    /\ rtask.pc = "sched_loop" =>
          /\ Range(rtask.filteredQuotes) = SpecifiedPool
          /\ Len(rtask.filteredQuotes) = Cardinality(SpecifiedPool)
          /\ \A n \in osScheduled :
                n.id \in Range(rtask.notifIds) =>
                    \E q \in SpecifiedPool : q.id = n.quote
    /\ (rtask.pc = "idle" /\ pass.state = "empty") => SpecifiedPool = {}

\* a notification has been registered from a pool that the preferences narrowed
\* and that holds a quote whose category is not stored in lower case
C5_Witness ==
    /\ rtask.pc = "sched_loop"
    /\ rtask.k > 1
    /\ storedPrefs[currentUser].list # <<>>
    /\ Len(rtask.filteredQuotes) < Len(storedQuotes)
    /\ \E q \in Range(rtask.filteredQuotes) : q.category # ToLowerCase(q.category)

\* C6: with an empty pool scheduleAllNotifications shows the alert, registers
\* nothing, does not call saveSettings and leaves the id list in state as it was
C6_EmptyPoolOnlyAlerts ==
    (PassJustEnded /\ SpecifiedPool = {}) =>
        /\ pass.state = "empty"
        /\ pass.alert
        /\ pass.handles = <<>>
        /\ pass.saves = <<>>
        /\ notificationIds = pass.idsAtStart

\* a pass has ended on the empty pool while the id list in state was not empty
C6_Witness ==
    /\ PassJustEnded
    /\ pass.state = "empty"
    /\ pass.alert
    /\ notificationIds # <<>>

\* C7: after addNewTime, handleTimeChange or removeTime has run to its end with
\* reminders enabled and a non-empty pool, the id list is as long as the times
\* list and its i-th id is the handle of a scheduled notification for the i-th
\* time
C7_IdsInSyncWithTimes ==
    (/\ rtask.pc = "idle"
     /\ lastOp.done
     /\ lastOp.op \in {"add", "change", "remove"}
     /\ lastOp.enabled
     /\ SpecifiedPool # {}) =>
        /\ Len(notificationIds) = Len(times)
        /\ \A i \in 1..Len(times) :
              \E n \in osScheduled :
                 /\ n.id = notificationIds[i]
                 /\ n.hour = times[i].hour
                 /\ n.minute = times[i].minute

\* handleTimeChange has run to its end with reminders enabled, on two different times
C7_Witness ==
    /\ rtask.pc = "idle"
    /\ lastOp.done
    /\ lastOp.op = "change"
    /\ lastOp.enabled
    /\ SpecifiedPool # {}
    /\ Len(times) = 2
    /\ times[1] # times[2]

\* C8: removeTime(index) cancels the notification whose id is stored at index,
\* removes the entry at index and no other from the times list and the id list,
\* saves the shortened lists, and reschedules only if reminders are enabled
C8_RemoveTimeRemovesOneEntry ==
    [][(rtask.pc = "remove_update" /\ rtask' # rtask) =>
          LET index == rtask.index IN
          /\ lastOp.cancelled \notin ScheduledIds
          /\ index \in 1..Len(notificationIds) => lastOp.cancelled = notificationIds[index]
          /\ Len(times') = Len(times) - 1
          /\ \A i \in 1..Len(times') :
                times'[i] = IF i < index THEN times[i] ELSE times[i + 1]
          /\ index \in 1..Len(notificationIds) =>
                /\ Len(notificationIds') = Len(notificationIds) - 1
                /\ \A i \in 1..Len(notificationIds') :
                      notificationIds'[i] =
                          IF i < index THEN notificationIds[i] ELSE notificationIds[i + 1]
          /\ index \notin 1..Len(notificationIds) => notificationIds' = notificationIds
          /\ lastOp'.saves = <<SaveCall(times', notificationIds', TRUE, 0)>>
          /\ (rtask'.pc = "sched_cancel") <=> enabled
          /\ (rtask'.pc = "sched_cancel") => rtask'.timeArray = times'
          /\ (rtask'.pc # "sched_cancel") => (rtask'.pc = "idle" /\ lastOp'.done)
    ]_vars

\* removeTime has removed the first of two entries, both lists keeping the second
C8_Witness ==
    /\ lastOp.op = "remove"
    /\ lastOp.index = 1
    /\ lastOp.cancelled # 0
    /\ lastOp.saves # <<>>
    /\ Len(times) = 1
    /\ Len(notificationIds) = 1

----------------------------------------------------------------------------
(* fetchQuotesFromAPI and mergeQuotes (src/utils/fetchQuotesFromAPI.js)     *)

\* the quote texts the API can answer with (q.q), one with a trailing space
RawTexts == {<<"x", " ">>, <<"y">>}

\* the arrays the API can answer with
Batches == UNION {[1..n -> RawTexts] : n \in 0..MaxBatch}

\* quotes stored before, the text of one with a leading space
StoredBefore ==
    <<[id |-> 101, text |-> <<"x">>, category |-> <<"a">>],
      [id |-> 102, text |-> <<" ", "y">>, category |-> <<"a">>]>>

\* categorizeQuote: 'inspiration' when the text holds no keyword
CategorizeQuote(text) == <<"i", "n", "s", "p", "i", "r", "a", "t", "i", "o", "n">>

\* data.map(q => ({id: uuid.v4(), text: q.q.trim(), ..., category: categorizeQuote(q.q)}))
FormatQuotes(data, firstId) ==
    [i \in 1..Len(data) |->
        [id |-> firstId + i - 1, text |-> Trim(data[i]),
         category |-> CategorizeQuote(data[i])]]

\* new Set(existing.map(q => q.text.trim()))
SeenTexts(existing) == {Trim(existing[i].text) : i \in 1..Len(existing)}

\* newQuotes.filter(q => !seenTexts.has(q.text.trim()))
UniqueNew(newQuotes, seenTexts) ==
    SelectSeq(newQuotes, LAMBDA q : Trim(q.text) \notin seenTexts)

\* mergeQuotes: [...existing, ...uniqueNew]
MergeQuotes(existing, newQuotes) ==
    existing \o UniqueNew(newQuotes, SeenTexts(existing))

\* catch (err) { console.error(...); return []; }
FetchCaught(result, failure) ==
    [result EXCEPT !.state = "resolved", !.value = <<>>, !.failure = failure]

outsideFetch ==
    <<currentUser, storedPrefs, authVars, homeVars, reminderVars, ttask,
      backupContent, btask, restoreResult>>

\* fetchQuotesFromAPI is called
FetchQuotesFromAPI ==
    /\ ftask.pc = "idle"
    /\ fetchResult.calls < MaxFetches
    /\ ftask' = [IdleFetch EXCEPT !.pc = "request"]
    /\ fetchResult' = [NoFetchResult EXCEPT !.state = "pending",
                                            !.before = storedQuotes,
                                            !.calls = fetchResult.calls + 1]
    /\ UNCHANGED <<storedQuotes, nextUuid, outsideFetch>>

\* await fetch(API_URL); if (!response.ok) throw new Error(...)
FetchRequest ==
    /\ ftask.pc = "request"
    /\ \E outcome \in {"request_failed", "not_ok", "ok"} :
          IF outcome = "ok"
          THEN /\ ftask' = [ftask EXCEPT !.pc = "json"]
               /\ UNCHANGED fetchResult
          ELSE /\ ftask' = IdleFetch
               /\ fetchResult' = FetchCaught(fetchResult, outcome)
    /\ UNCHANGED <<storedQuotes, nextUuid, outsideFetch>>

\* await response.json(), then the quotes are formatted
FetchJson ==
    /\ ftask.pc = "json"
    /\ \/ /\ ftask' = IdleFetch
          /\ fetchResult' = FetchCaught(fetchResult, "json_failed")
          /\ UNCHANGED nextUuid
       \/ \E data \in Batches :
             /\ ftask' = [ftask EXCEPT !.pc = "merge_get",
                                       !.newQuotes = FormatQuotes(data, nextUuid)]
             /\ nextUuid' = nextUuid + Len(data)
             /\ UNCHANGED fetchResult
    /\ UNCHANGED <<storedQuotes, outsideFetch>>

\* mergeQuotes: const existing = await getQuotes()
MergeGetQuotes ==
    /\ ftask.pc = "merge_get"
    /\ ftask' = [ftask EXCEPT !.pc = "merge_save", !.existing = storedQuotes]
    /\ UNCHANGED <<storedQuotes, fetchResult, nextUuid, outsideFetch>>

\* mergeQuotes: await saveQuotes(updated)
MergeSaveQuotes ==
    /\ ftask.pc = "merge_save"
    /\ storedQuotes' = MergeQuotes(ftask.existing, ftask.newQuotes)
    /\ ftask' = [ftask EXCEPT !.pc = "return"]
    /\ UNCHANGED <<fetchResult, nextUuid, outsideFetch>>

\* return newQuotes
FetchReturn ==
    /\ ftask.pc = "return"
    /\ fetchResult' = [fetchResult EXCEPT !.state = "resolved",
                                          !.value = ftask.newQuotes]
    /\ ftask' = IdleFetch
    /\ UNCHANGED <<storedQuotes, nextUuid, outsideFetch>>

FetchInit ==
    /\ currentUser = NoUser
    /\ storedQuotes \in {SubList(StoredBefore, S, 1) : S \in SUBSET (1..Len(StoredBefore))}
    /\ storedPrefs = [e \in Users \cup {NoUser} |-> NoPrefs]
    /\ AuthUnmounted
    /\ HomeUnmounted
    /\ ReminderMounted
    /\ UtilsIdle

FetchNext ==
    \/ FetchQuotesFromAPI
    \/ FetchRequest
    \/ FetchJson
    \/ MergeGetQuotes
    \/ MergeSaveQuotes
    \/ FetchReturn

FetchSpec == FetchInit /\ [][FetchNext]_vars

\* no two quotes of the list have the same trimmed text
NoDuplicateTexts(quotes) ==
    \A i, j \in 1..Len(quotes) :
        Trim(quotes[i].text) = Trim(quotes[j].text) => i = j

\* the last call of fetchQuotesFromAPI has settled
FetchSettled == ftask.pc = "idle" /\ fetchResult.state \in {"resolved", "rejected"}

\* the quotes the last call appended to the stored list
Appended ==
    SubSeq(storedQuotes, Len(fetchResult.before) + 1, Len(storedQuotes))

\* C11: when the stored list had no two quotes with the same trimmed text before
\* the call, it has none after mergeQuotes has saved, whatever the batch
C11_MergeKeepsTextsUnique ==
    (FetchSettled /\ NoDuplicateTexts(fetchResult.before)) =>
        NoDuplicateTexts(storedQuotes)

\* C12: fetchQuotesFromAPI resolves to exactly the quotes this call appended to
\* the stored list
C12_ReturnsWhatWasAppended ==
    (FetchSettled /\ fetchResult.state = "resolved") =>
        fetchResult.value = Appended

\* C13: fetchQuotesFromAPI rejects when the request fails or the response is not OK
C13_RejectsOnFailedRequest ==
    (FetchSettled /\ fetchResult.failure \in {"request_failed", "not_ok"}) =>
        fetchResult.state = "rejected"

----------------------------------------------------------------------------
(* restoreBackup (src/utils/BackupService.js)                              *)

\* what backup.json can hold: text that is not JSON, the JSON text null, or the
\* JSON of an object with some of the keys 'currentUser' and 'hasLaunched'
BackupContents ==
    {[kind |-> "malformed", entries |-> <<>>], [kind |-> "null", entries |-> <<>>]}
    \cup {[kind |-> "object", entries |-> e] :
            e \in {<<>>,
                   <<[key |-> "currentUser", value |-> "u1"]>>,
                   <<[key |-> "hasLaunched", value |-> "true"]>>,
                   <<[key |-> "currentUser", value |-> "u2"],
                     [key |-> "hasLaunched", value |-> "true"]>>}}

\* the key-value store, as far as a backup can write it
Store == <<currentUser, hasLaunched>>

\* AsyncStorage.multiSet(entries) on the pair <<currentUser, hasLaunched>>
\* ('hasLaunched' is read for its truthiness: any non-empty string counts)
RECURSIVE MultiSet(_, _)
MultiSet(store, entries) ==
    IF entries = <<>> THEN store
    ELSE LET e == Head(entries)
             written == IF e.key = "currentUser"
                        THEN <<e.value, store[2]>>
                        ELSE <<store[1], e.value # "">>
         IN MultiSet(written, Tail(entries))

\* catch (err) { console.error(...); return false; }
RestoreRethrows(result, cause) ==
    [result EXCEPT !.state = "rejected", !.cause = cause]
RestoreCaught(result, cause) ==
    [result EXCEPT !.state = "resolved", !.value = FALSE, !.cause = cause]

outsideRestore ==
    <<storedQuotes, storedPrefs, homeVars, reminderVars, ttask, ftask, fetchResult,
      nextUuid, quoteCount, online, isLoading, isWaitingForInternet, quoteOfTheDay,
      route, authAlert, timerPending, atask, retries, backupContent>>

\* restoreBackup is called
RestoreBackup ==
    /\ btask.pc = "idle"
    /\ btask' = [pc |-> "info"]
    /\ restoreResult' = [NoRestoreResult EXCEPT !.state = "pending", !.before = Store]
    /\ UNCHANGED <<currentUser, hasLaunched, backupFile, outsideRestore>>

\* await FileSystem.getInfoAsync(BACKUP_FILE); if (!info.exists) return false
RestoreGetInfo ==
    /\ btask.pc = "info"
    /\ \E threw \in BOOLEAN :
          IF threw
          THEN /\ restoreResult' = RestoreCaught(restoreResult, "info_failed")
               /\ btask' = IdleRestore
          ELSE IF ~backupFile
          THEN /\ restoreResult' = [restoreResult EXCEPT !.state = "resolved",
                                                         !.value = FALSE,
                                                         !.cause = "no_file"]
               /\ btask' = IdleRestore
          ELSE /\ btask' = [pc |-> "read"]
               /\ UNCHANGED restoreResult
    /\ UNCHANGED <<currentUser, hasLaunched, backupFile, outsideRestore>>

\* await FileSystem.readAsStringAsync(BACKUP_FILE), then JSON.parse(content) and
\* Object.entries(parsed)
RestoreRead ==
    /\ btask.pc = "read"
    /\ \E threw \in BOOLEAN :
          IF threw
          THEN /\ restoreResult' = RestoreCaught(restoreResult, "read_failed")
               /\ btask' = IdleRestore
          ELSE IF backupContent.kind = "malformed"
          THEN /\ restoreResult' = RestoreCaught(restoreResult, "parse_failed")
               /\ btask' = IdleRestore
          ELSE IF backupContent.kind = "null"
          THEN /\ restoreResult' = RestoreCaught(restoreResult, "entries_failed")
               /\ btask' = IdleRestore
          ELSE /\ btask' = [pc |-> "multiset"]
               /\ UNCHANGED restoreResult
    /\ UNCHANGED <<currentUser, hasLaunched, backupFile, outsideRestore>>

\* await AsyncStorage.multiSet(Object.entries(parsed)); return true.  When
\* multiSet rejects, any leading part of the entries may have been written.
RestoreMultiSet ==
    /\ btask.pc = "multiset"
    /\ \/ LET written == MultiSet(Store, backupContent.entries) IN
          /\ currentUser' = written[1]
          /\ hasLaunched' = written[2]
          /\ restoreResult' = [restoreResult EXCEPT !.state = "resolved",
                                                    !.value = TRUE, !.cause = "none"]
       \/ \E n \in 0..Len(backupContent.entries) :
             LET written == MultiSet(Store, SubSeq(backupContent.entries, 1, n)) IN
             /\ currentUser' = written[1]
             /\ hasLaunched' = written[2]
             /\ restoreResult' = RestoreCaught(restoreResult, "multiset_failed")
    /\ btask' = IdleRestore
    /\ UNCHANGED <<backupFile, outsideRestore>>

RestoreInit ==
    /\ currentUser \in Users \cup {NoUser}
    /\ storedQuotes = <<>>
    /\ storedPrefs = [e \in Users \cup {NoUser} |-> NoPrefs]
    /\ hasLaunched \in BOOLEAN
    /\ quoteCount = 0
    /\ backupFile \in BOOLEAN
    /\ online = TRUE
    /\ isLoading = TRUE
    /\ isWaitingForInternet = FALSE
    /\ quoteOfTheDay = FALSE
    /\ route = "BackupRestore"
    /\ authAlert = "none"
    /\ timerPending = FALSE
    /\ atask = AuthTask("done")
    /\ retries = 0
    /\ HomeUnmounted
    /\ ReminderMounted
    /\ ttask = IdleToggle
    /\ ftask = IdleFetch
    /\ fetchResult = NoFetchResult
    /\ nextUuid = 1
    /\ backupContent \in BackupContents
    /\ btask = IdleRestore
    /\ restoreResult = NoRestoreResult

RestoreNext ==
    \/ RestoreBackup
    \/ RestoreGetInfo
    \/ RestoreRead
    \/ RestoreMultiSet

RestoreSpec == RestoreInit /\ [][RestoreNext]_vars

\* C14: restoreBackup never throws to its caller, and when no backup file
\* exists or reading or parsing the file fails it returns false and leaves the
\* key-value store as it was
C14_RestoreFailsClosed ==
    /\ restoreResult.state # "rejected"
    /\ (/\ restoreResult.state = "resolved"
        /\ restoreResult.cause \in {"no_file", "read_failed", "parse_failed"}) =>
          /\ restoreResult.value = FALSE
          /\ Store = restoreResult.before

\* restoreBackup has returned false on a file that is not JSON, in a store that
\* holds a user
C14_Witness ==
    /\ restoreResult.state = "resolved"
    /\ restoreResult.cause = "parse_failed"
    /\ restoreResult.value = FALSE
    /\ currentUser # NoUser
    /\ backupFile

----------------------------------------------------------------------------
(* ReminderScreen, the revision of src/unnamed/part_000: toggleReminder     *)
(* starts scheduleAllNotifications without awaiting it, so the switch can   *)
(* be pressed again while the notifications are still being registered      *)

\* part_000: preferences.length === 0 ? allQuotes
\*           : allQuotes.filter(q => preferences.includes(q.category))
Part0FilteredQuotes(allQuotes, preferences) ==
    IF Len(preferences) = 0
    THEN allQuotes
    ELSE SelectSeq(allQuotes, LAMBDA q : q.category \in Range(preferences))

outsideRace ==
    <<currentUser, storedQuotes, storedPrefs, authVars, homeVars, ftask, fetchResult,
      nextUuid, backupContent, btask, restoreResult, notificationIds, pass, lastOp>>

\* toggleReminder: const newState = !enabled; setEnabled(newState).  The model
\* follows one scheduleAllNotifications at a time: the switch is pressed on only
\* when none is in flight.
Part0ToggleReminder ==
    /\ ttask.pc = "idle"
    /\ nextNotifId <= MaxNotifIds
    /\ enabled \/ rtask.pc = "idle"
    /\ enabled' = ~enabled
    /\ ttask' = [pc |-> "stored", newState |-> ~enabled, capTimes |-> times]
    /\ UNCHANGED <<times, savedSettings, osScheduled, nextNotifId, rtask, outsideRace>>

\* toggleReminder: await AsyncStorage.setItem('reminderEnabled', ...), then
\* scheduleAllNotifications(times) without await, or on to cancelAllNotifications
Part0ToggleStored ==
    /\ ttask.pc = "stored"
    /\ savedSettings' = [savedSettings EXCEPT !.enabled = ttask.newState]
    /\ IF ttask.newState
       THEN /\ rtask' = [IdleTask EXCEPT !.op = "toggle", !.pc = "part0_cancel",
                                         !.timeArray = ttask.capTimes]
            /\ ttask' = IdleToggle
       ELSE /\ ttask' = [ttask EXCEPT !.pc = "cancel"]
            /\ UNCHANGED rtask
    /\ UNCHANGED <<enabled, times, osScheduled, nextNotifId, outsideRace>>

\* toggleReminder switching off: await cancelAllNotifications(); Toast
Part0ToggleCancel ==
    /\ ttask.pc = "cancel"
    /\ osScheduled' = CancelAllScheduled(osScheduled)
    /\ ttask' = IdleToggle
    /\ UNCHANGED <<enabled, times, savedSettings, nextNotifId, rtask, outsideRace>>

\* scheduleAllNotifications: await cancelAllNotifications()
Part0SchedCancel ==
    /\ rtask.pc = "part0_cancel"
    /\ osScheduled' = CancelAllScheduled(osScheduled)
    /\ rtask' = [rtask EXCEPT !.pc = "part0_filter"]
    /\ UNCHANGED <<enabled, times, savedSettings, nextNotifId, ttask, outsideRace>>

\* scheduleAllNotifications: if (!email) return; preferences; filter; the alert
\* and return when nothing is left
Part0SchedFilter ==
    /\ rtask.pc = "part0_filter"
    /\ LET email == currentUser
           preferences == Preferences(storedPrefs[email])
           filteredQuotes == Part0FilteredQuotes(storedQuotes, preferences)
       IN IF email = NoUser \/ Len(filteredQuotes) = 0
          THEN rtask' = IdleTask
          ELSE rtask' = [rtask EXCEPT !.pc = "part0_loop",
                                      !.filteredQuotes = filteredQuotes, !.k = 1]
    /\ UNCHANGED <<enabled, times, savedSettings, osScheduled, nextNotifId, ttask,
                   outsideRace>>

\* scheduleAllNotifications: one turn of the loop over timeArray
Part0SchedRegister ==
    /\ rtask.pc = "part0_loop"
    /\ rtask.k <= Len(rtask.timeArray)
    /\ \E randomQuote \in Range(rtask.filteredQuotes) :
          osScheduled' = osScheduled \cup
              {NotificationRequest(nextNotifId, rtask.timeArray[rtask.k], randomQuote)}
    /\ nextNotifId' = nextNotifId + 1
    /\ rtask' = [rtask EXCEPT !.k = rtask.k + 1]
    /\ UNCHANGED <<enabled, times, savedSettings, ttask, outsideRace>>

\* scheduleAllNotifications: after the loop, the Toast
Part0SchedDone ==
    /\ rtask.pc = "part0_loop"
    /\ rtask.k > Len(rtask.timeArray)
    /\ rtask' = IdleTask
    /\ UNCHANGED <<enabled, times, savedSettings, osScheduled, nextNotifId, ttask,
                   outsideRace>>

\* addNewTime of part_000: setTimes, saveSettings, Toast (nothing is scheduled)
Part0AddNewTime ==
    /\ Len(times) < MaxTimes
    /\ \E newTime \in TimeValues :
          /\ times' = Append(times, newTime)
          /\ savedSettings' = [savedSettings EXCEPT !.times = times',
                                                    !.enabled = enabled]
    /\ UNCHANGED <<enabled, osScheduled, nextNotifId, rtask, ttask, outsideRace>>

\* part_000: useState(false), useState([new Date()]); nothing scheduled yet
RaceInit ==
    /\ currentUser \in {"u1", NoUser}
    /\ storedQuotes \in QuoteLists
    /\ storedPrefs = [e \in Users \cup {NoUser} |-> NoPrefs]
    /\ AuthUnmounted
    /\ HomeUnmounted
    /\ UtilsIdle
    /\ enabled = FALSE
    /\ times \in {<<t>> : t \in TimeValues}
    /\ notificationIds = <<>>
    /\ savedSettings = [times |-> <<>>, ids |-> <<>>, enabled |-> FALSE]
    /\ osScheduled = {}
    /\ nextNotifId = 1
    /\ rtask = IdleTask
    /\ pass = NoPass
    /\ lastOp = NoOp

RaceNext ==
    \/ Part0ToggleReminder
    \/ Part0ToggleStored
    \/ Part0ToggleCancel
    \/ Part0SchedCancel
    \/ Part0SchedFilter
    \/ Part0SchedRegister
    \/ Part0SchedDone
    \/ Part0AddNewTime

RaceSpec == RaceInit /\ [][RaceNext]_vars

\* C15: whenever reminders are disabled and neither toggleReminder nor
\* scheduleAllNotifications is in flight, the OS holds no reminder notification
C15_NothingScheduledWhenDisabled ==
    (~enabled /\ ttask.pc = "idle" /\ rtask.pc = "idle") => osScheduled = {}

----------------------------------------------------------------------------
(* HomeScreen.loadData against ReminderScreen.scheduleAllNotifications      *)

\* the quotes HomeScreen.loadData selects for display from what is stored now
\* (before the shuffle and the cap of 100)
HomeSelection ==
    Range(HomeFilteredQuotes(storedQuotes, Preferences(storedPrefs[currentUser])))

\* C16: for the same stored quotes and preferences, the quotes loadData selects
\* for display are the pool scheduleAllNotifications draws from
C16_HomeSelectionIsReminderPool ==
    /\ rtask.pc = "sched_loop" => HomeSelection = Range(rtask.filteredQuotes)
    /\ (rtask.pc = "idle" /\ pass.state = "empty") => HomeSelection = {}

====
